---- MODULE Spec2Model ----
(***************************************************************************)
(* Model of localizeText.py: the string-table record parser, the           *)
(* placeholder codec (parseKeyFromToGloud and the split-and-interleave     *)
(* step of convertTranslationOutputToIosFormat), the translation pipeline  *)
(* of actionTranslateAppStringsFileViaGcloud up to the end of main, the    *)
(* writer of the string tables followed by the parser, and reportDiff.     *)
(*                                                                         *)
(* Texts are sequences of one-character strings.  Python's 0-based string  *)
(* offsets are kept 0-based in find/slice (PyFind, PySlice) so that the    *)
(* comparisons of the source (>= 0, > 0, > comment_start) read as written. *)
(***************************************************************************)
EXTENDS Integers, Sequences, FiniteSets, TLC

VARIABLES
    \* ---- placeholder codec
    pcCodec,          \* "init" | "tokenized" | "translated" | "restored"
    text,             \* argument of parseKeyFromToGloud
    newText,          \* first return value of parseKeyFromToGloud
    formatters,       \* second return value of parseKeyFromToGloud
    translatedText,   \* d["translatedText"] handed to the restore step
    restored,         \* outcome of the restore step for the item
    \* ---- record parser (parseAppStringsFile)
    pcParse,          \* "idle" | "start" | "loop" | "returned" | "raised"
    fileText,         \* fh.read(): the decoded text of the strings file
    srcRecords,       \* the raw records the file text was written from
    srcEol,           \* the line break the file text was written with
    records,          \* fileText.split( separator )
    ixRecord,         \* position of the for loop over records
    translationKeys,
    guiTexts,
    comments,
    \* ---- actionTranslateAppStringsFileViaGcloud / translateForLanguages
    pc,               \* "idle" | "parse" | "call" | "convert" | "done" | "report" |
                      \* "normal" | "exit" | "crashed"
    targetLangs,      \* language codes, as extractAppRelevantPaths returns them
    lProjDirNames,    \* locale directory names, aligned with targetLangs
    envToken,         \* TRUE: GCLOUD_TOKEN is set in os.environ
    g_authToken,      \* the process-wide token: "None" or its value
    requestFiles,     \* content of the request file of each language index
    ixLang,           \* position of the current loop over the languages
    gcloudFiles,      \* service output file per language code, or NoFile
    formattersList,   \* placeholder list per translation key
    iosFiles,         \* Localizable.strings text per locale directory, or NoText
    popenCalls,       \* the curl and gcloud commands run so far, with what they gave back
    acquiredToken,    \* token of acquireAndStoreGToken: "None" or what gcloud printed
    \* ---- the writer of convertTranslationOutputToIosFormat, fed on its own
    localizedRecords, \* the records handed to the writer
    \* ---- reportDiff
    pcReport,         \* "idle" | "start" | "loop" | "returned" | "exit"
    oldFolders,       \* locale directories of the project
    newFolders,       \* locale directories of the translation result
    oldFoldersHash,
    newFoldersHash,
    pendingLangs,     \* keys of oldFoldersHash the for loop has not visited yet
    diffLinesAll,
    messages,         \* what _infoTs printed about languages without a folder
    reportFile        \* text of diffOutput.txt in outputDir, or NoText

codecVars == <<pcCodec, text, newText, formatters, translatedText, restored>>

parserVars == <<pcParse, fileText, srcRecords, srcEol, records, ixRecord,
                translationKeys, guiTexts, comments>>

pipeVars == <<pc, targetLangs, lProjDirNames, envToken, g_authToken, requestFiles,
              ixLang, gcloudFiles, formattersList, iosFiles, popenCalls, acquiredToken>>

writerVars == <<localizedRecords>>

reportVars == <<pcReport, oldFolders, newFolders, oldFoldersHash, newFoldersHash,
                pendingLangs, diffLinesAll, messages, reportFile>>

vars == <<codecVars, parserVars, pipeVars, writerVars, reportVars>>

\* ------------------------------------------------------------------------
\* Bounds of the model
\* ------------------------------------------------------------------------
MaxTextPieces == 3
MaxTransPieces == 2
MaxRecords == 2
MaxKeys == 2
MaxLangs == 2
MaxResponseExtra == 1
MaxLocalized == 2

\* ------------------------------------------------------------------------
\* Generic helpers
\* ------------------------------------------------------------------------
SeqsUpTo(S, n) == UNION { [1..k -> S] : k \in 0..n }

RECURSIVE Flatten(_)
Flatten(ss) == IF ss = <<>> THEN <<>> ELSE Head(ss) \o Flatten(Tail(ss))

NoValue == [none |-> TRUE]

DigitChars == <<"0", "1", "2", "3", "4", "5", "6", "7", "8", "9">>

IsDigit(c) == \E i \in 1..10 : DigitChars[i] = c

\* "%d" % n : the decimal numeral of a natural number
RECURSIVE FormatDecimal(_)
FormatDecimal(n) ==
    IF n < 10 THEN <<DigitChars[n + 1]>>
    ELSE FormatDecimal(n \div 10) \o <<DigitChars[(n % 10) + 1]>>

\* ------------------------------------------------------------------------
\* parseKeyFromToGloud  (tokenize)
\* ------------------------------------------------------------------------
\* pat.finditer(text) for pat = "(%d|%s)": the 1-based start positions of the
\* non-overlapping matches, scanning left to right from pos
RECURSIVE patFinditer(_, _)
patFinditer(t, pos) ==
    IF pos + 1 > Len(t) THEN <<>>
    ELSE IF t[pos] = "%" /\ t[pos + 1] \in {"d", "s"}
         THEN <<pos>> \o patFinditer(t, pos + 2)
         ELSE patFinditer(t, pos + 1)

\* "{%d\}" % i : in a non-raw Python literal \} is no escape sequence, the
\* backslash stays in the string
positionalToken(i) == <<"{">> \o FormatDecimal(i) \o <<"\\", "}">>

\* the body of the for loop, run for the matches ms[k..]
RECURSIVE tokenizeLoop(_, _, _, _)
tokenizeLoop(t, ms, k, st) ==
    IF k > Len(ms) THEN st
    ELSE LET copyTill == ms[k]
             group == SubSeq(t, ms[k], ms[k] + 1)
         IN tokenizeLoop(t, ms, k + 1,
                [ i          |-> st.i + 1,
                  formatters |-> Append(st.formatters, group),
                  copyFrom   |-> ms[k] + Len(group),
                  newText    |-> st.newText
                                 \o SubSeq(t, st.copyFrom, copyTill - 1)
                                 \o positionalToken(st.i) ])

\* a variant that returns what the loop has collected, whatever it found
parseKeyLoopOnly(t) ==
    LET st == tokenizeLoop(t, patFinditer(t, 1), 1,
                  [i |-> 0, formatters |-> <<>>, copyFrom |-> 1, newText |-> <<>>])
    IN [newText |-> st.newText, formatters |-> st.formatters]

parseKeyFromToGloud(t) ==
    LET st == tokenizeLoop(t, patFinditer(t, 1), 1,
                  [i |-> 0, formatters |-> <<>>, copyFrom |-> 1, newText |-> <<>>])
    IN IF Len(st.formatters) = 0
       THEN [newText |-> t, formatters |-> st.formatters]
       ELSE [newText    |-> st.newText \o SubSeq(t, st.copyFrom, Len(t)),
             formatters |-> st.formatters]

\* ------------------------------------------------------------------------
\* convertTranslationOutputToIosFormat, per item  (restore)
\* ------------------------------------------------------------------------
\* placeholderPat.split(text) for placeholderPat = r'{\d}': one digit between
\* the braces
RECURSIVE placeholderPatSplit(_, _, _)
placeholderPatSplit(t, pos, cur) ==
    IF pos > Len(t) THEN <<cur>>
    ELSE IF pos + 2 <= Len(t) /\ t[pos] = "{" /\ IsDigit(t[pos + 1]) /\ t[pos + 2] = "}"
         THEN <<cur>> \o placeholderPatSplit(t, pos + 3, <<>>)
         ELSE placeholderPatSplit(t, pos + 1, Append(cur, t[pos]))

\* for ixPart, part in enumerate(parts): newText += part [+ formatters[ixPart]]
RECURSIVE interleave(_, _, _)
interleave(parts, fmts, ixPart) ==
    IF ixPart > Len(parts) THEN <<>>
    ELSE (IF ixPart <= Len(fmts) THEN parts[ixPart] \o fmts[ixPart] ELSE parts[ixPart])
         \o interleave(parts, fmts, ixPart + 1)

\* a variant that leaves out the count check before interleaving
convertItemUnchecked(t, fmts) ==
    LET parts == placeholderPatSplit(t, 1, <<>>)
    IN [exit |-> FALSE,
        text |-> IF Len(fmts) > 0 THEN interleave(parts, fmts, 1) ELSE t]

\* a variant that reinserts the last recorded formatter at every token
convertItemLastFormatter(t, fmts) ==
    LET parts == placeholderPatSplit(t, 1, <<>>)
    IN IF Len(fmts) # Len(parts) - 1
       THEN [exit |-> TRUE, text |-> NoValue]
       ELSE [exit |-> FALSE,
             text |-> IF Len(fmts) > 0
                      THEN interleave(parts, [k \in 1..Len(fmts) |-> fmts[Len(fmts)]], 1)
                      ELSE t]

\* one pass of the loop body: exit = _errorExit was called
convertItem(t, fmts) ==
    LET parts == placeholderPatSplit(t, 1, <<>>)
    IN IF Len(fmts) # Len(parts) - 1
       THEN [exit |-> TRUE, text |-> NoValue]
       ELSE [exit |-> FALSE,
             text |-> IF Len(fmts) > 0 THEN interleave(parts, fmts, 1) ELSE t]

\* ------------------------------------------------------------------------
\* Python string operations (offsets are 0-based as in the source)
\* ------------------------------------------------------------------------
\* sub occurs in s at 0-based offset off
MatchAt(s, sub, off) ==
    /\ off >= 0
    /\ off + Len(sub) <= Len(s)
    /\ \A j \in 1..Len(sub) : s[off + j] = sub[j]

\* s.find(sub, start): lowest offset >= start where sub occurs, else -1
PyFind(s, sub, start) ==
    LET hits == { o \in start..(Len(s) - Len(sub)) : MatchAt(s, sub, o) }
    IN IF hits = {} THEN -1 ELSE CHOOSE o \in hits : \A h \in hits : o <= h

\* s[a:b] for 0 <= a, 0 <= b <= len(s)
PySlice(s, a, b) == SubSeq(s, a + 1, b)

\* s.split(sep)
RECURSIVE PySplit(_, _)
PySplit(s, sep) ==
    LET o == PyFind(s, sep, 0)
    IN IF o < 0 THEN <<s>>
       ELSE <<PySlice(s, 0, o)>> \o PySplit(SubSeq(s, o + Len(sep) + 1, Len(s)), sep)

\* s.replace(from, to) for one-character from and to
PyReplaceChar(s, from, to) == [i \in 1..Len(s) |-> IF s[i] = from THEN to ELSE s[i]]

\* ------------------------------------------------------------------------
\* parseLocalizableItem
\* ------------------------------------------------------------------------
OpenComment == <<"/", "*">>
CloseComment == <<"*", "/">>
Quote == <<"\"">>

\* Python's None where a text is expected: no text is this one-element
\* sequence, every character of a text being a one-character string
None == <<"None">>

ItemNone == [raised |-> FALSE, key |-> None, value |-> None, comment |-> None]
ItemRaised == [raised |-> TRUE, key |-> None, value |-> None, comment |-> None]

\* raised: a failed assert (or the undefined name debug ahead of it) ends
\* the call with an exception
parseLocalizableItem(p_record) ==
    LET comment_start == PyFind(p_record, OpenComment, 0)
        comment_end == PyFind(p_record, CloseComment, 0)
    IN IF comment_start >= 0 /\ comment_end > comment_start
       THEN LET comment == PySlice(p_record, comment_start + 2, comment_end)
                key_start == PyFind(p_record, Quote, comment_end)
            IN IF key_start < 0 THEN ItemRaised
               ELSE LET key_end == PyFind(p_record, Quote, key_start + 1)
                    IN IF key_end < 0 \/ ~(key_end >= key_start) THEN ItemRaised
                       ELSE LET key_name == PySlice(p_record, key_start + 1, key_end)
                                value_start == PyFind(p_record, Quote, key_end + 1)
                            IN IF value_start < 0 THEN ItemRaised
                               ELSE LET value_end == PyFind(p_record, Quote, value_start + 1)
                                    IN IF value_end < 0 \/ ~(value_end >= value_start)
                                       THEN ItemRaised
                                       ELSE [raised  |-> FALSE,
                                             key     |-> key_name,
                                             value   |-> PySlice(p_record, value_start + 1, value_end),
                                             comment |-> comment]
       ELSE ItemNone

\* ------------------------------------------------------------------------
\* parseAppStringsFile
\* ------------------------------------------------------------------------
LF == "\n"
CR == "\r"
UnixEol == <<LF>>
DosEol == <<CR, LF>>

\* detect end_of_line style and split
splitRecords(t) ==
    LET foundDosEol == PyFind(t, DosEol, 0)
    IN IF foundDosEol > 0 THEN PySplit(t, <<";">> \o DosEol)
       ELSE PySplit(t, <<";">> \o UnixEol)

ParseStart ==
    /\ pcParse = "start"
    /\ records' = splitRecords(fileText)
    /\ ixRecord' = 1
    /\ translationKeys' = <<>>
    /\ guiTexts' = <<>>
    /\ comments' = <<>>
    /\ pcParse' = "loop"
    /\ UNCHANGED <<fileText, srcRecords, srcEol>>
    /\ UNCHANGED <<codecVars, pipeVars, writerVars, reportVars>>

\* one pass of "for record in records"
ParseRecord ==
    /\ pcParse = "loop"
    /\ ixRecord <= Len(records)
    /\ LET record == PyReplaceChar(records[ixRecord], LF, ";")
           item == parseLocalizableItem(record)
       IN IF item.raised
          THEN /\ pcParse' = "raised"
               /\ UNCHANGED <<ixRecord, translationKeys, guiTexts, comments>>
          ELSE /\ pcParse' = "loop"
               /\ ixRecord' = ixRecord + 1
               /\ IF item.key # None
                  THEN /\ translationKeys' = Append(translationKeys, item.key)
                       /\ guiTexts' = Append(guiTexts, item.value)
                       /\ comments' = Append(comments, item.comment)
                  ELSE UNCHANGED <<translationKeys, guiTexts, comments>>
    /\ UNCHANGED <<fileText, srcRecords, srcEol, records>>
    /\ UNCHANGED <<codecVars, pipeVars, writerVars, reportVars>>

ParseReturn ==
    /\ pcParse = "loop"
    /\ ixRecord > Len(records)
    /\ pcParse' = "returned"
    /\ UNCHANGED <<fileText, srcRecords, srcEol, records, ixRecord,
                   translationKeys, guiTexts, comments>>
    /\ UNCHANGED <<codecVars, pipeVars, writerVars, reportVars>>

\* ------------------------------------------------------------------------
\* Inputs of the codec
\* ------------------------------------------------------------------------
TimeIsUpKey ==
    <<"T","i","m","e"," ","i","s"," ","u","p"," ","i","n"," ","%","d"," ",
      "h","o","u","r","s"," ","a","n","d"," ","%","d"," ",
      "m","i","n","u","t","e","s">>

DieZeitText ==
    <<"D","i","e"," ","Z","e","i","t"," ","i","s","t"," ","i","n"," ",
      "{","0","}"," ","S","t","u","n","d","e","n"," ","u","n","d"," ",
      "{","1","}"," ","M","i","n","u","t","e","n"," ",
      "a","b","g","e","l","a","u","f","e","n">>

TextPieces == { <<"a">>, <<"%", "d">>, <<"%", "s">>, <<"%">>, <<"{", "0", "}">> }

Texts == { Flatten(ps) : ps \in SeqsUpTo(TextPieces, MaxTextPieces) } \cup { TimeIsUpKey }

TransPieces == { <<"x">>, <<"{", "0", "}">>, <<"{", "1", "}">>,
                 <<"{", "0", "\\", "}">>, <<"{">> }

TranslatedTexts ==
    { Flatten(ps) : ps \in SeqsUpTo(TransPieces, MaxTransPieces) } \cup { DieZeitText }

\* ------------------------------------------------------------------------
\* Codec state machine
\* ------------------------------------------------------------------------
\* the parts of the state a specification does not use stay as constructed
CodecIdle ==
    /\ pcCodec = "idle"
    /\ text = NoValue
    /\ newText = NoValue
    /\ formatters = NoValue
    /\ translatedText = NoValue
    /\ restored = NoValue

PipeIdle ==
    /\ pc = "idle"
    /\ targetLangs = NoValue
    /\ lProjDirNames = NoValue
    /\ envToken = FALSE
    /\ g_authToken = "None"
    /\ requestFiles = NoValue
    /\ ixLang = 0
    /\ gcloudFiles = NoValue
    /\ formattersList = NoValue
    /\ iosFiles = NoValue
    /\ popenCalls = <<>>
    /\ acquiredToken = "None"

WriterIdle == localizedRecords = NoValue

ReportIdle ==
    /\ pcReport = "idle"
    /\ oldFolders = NoValue
    /\ newFolders = NoValue
    /\ oldFoldersHash = NoValue
    /\ newFoldersHash = NoValue
    /\ pendingLangs = {}
    /\ diffLinesAll = NoValue
    /\ messages = {}
    /\ reportFile = NoValue

ParserIdle ==
    /\ pcParse = "idle"
    /\ fileText = NoValue
    /\ srcRecords = NoValue
    /\ srcEol = NoValue
    /\ records = NoValue
    /\ ixRecord = 0
    /\ translationKeys = NoValue
    /\ guiTexts = NoValue
    /\ comments = NoValue

InitCodec ==
    /\ pcCodec = "init"
    /\ text \in Texts
    /\ newText = NoValue
    /\ formatters = NoValue
    /\ translatedText = NoValue
    /\ restored = NoValue
    /\ ParserIdle
    /\ PipeIdle
    /\ WriterIdle
    /\ ReportIdle

Tokenize ==
    /\ pcCodec = "init"
    /\ LET r == parseKeyFromToGloud(text)
       IN /\ newText' = r.newText
          /\ formatters' = r.formatters
    /\ pcCodec' = "tokenized"
    /\ UNCHANGED <<text, translatedText, restored>>
    /\ UNCHANGED <<parserVars, pipeVars, writerVars, reportVars>>

\* the translation service hands the tokenized text back unchanged
TranslateEcho ==
    /\ pcCodec = "tokenized"
    /\ translatedText' = newText
    /\ pcCodec' = "translated"
    /\ UNCHANGED <<text, newText, formatters, restored>>
    /\ UNCHANGED <<parserVars, pipeVars, writerVars, reportVars>>

\* the translation service answers with some other text
TranslateOther ==
    /\ pcCodec = "tokenized"
    /\ \E t \in TranslatedTexts : translatedText' = t
    /\ pcCodec' = "translated"
    /\ UNCHANGED <<text, newText, formatters, restored>>
    /\ UNCHANGED <<parserVars, pipeVars, writerVars, reportVars>>

Restore ==
    /\ pcCodec = "translated"
    /\ restored' = convertItem(translatedText, formatters)
    /\ pcCodec' = "restored"
    /\ UNCHANGED <<text, newText, formatters, translatedText>>
    /\ UNCHANGED <<parserVars, pipeVars, writerVars, reportVars>>

NextCodec == Tokenize \/ TranslateEcho \/ TranslateOther \/ Restore

SpecCodec == InitCodec /\ [][NextCodec]_vars

\* ------------------------------------------------------------------------
\* Inputs of the record parser: files written record by record, every record
\* followed by the terminator and the line break of the file
\* ------------------------------------------------------------------------
HowAreYou == <<"H","o","w"," ","a","r","e"," ","y","o","u">>

CommonGreetingComment == <<"/","*"," ","C","o","m","m","o","n"," ","g","r","e","e","t","i","n","g"," ","*","/">>

KeyValueStatement(k, v) == Quote \o k \o <<"\"", " ", "=", " ", "\"">> \o v \o Quote

\* e: the line break of the file
RecCommonGreeting(e) == CommonGreetingComment \o e \o KeyValueStatement(HowAreYou, HowAreYou)
RecShort(e) == <<"/","*","c","*","/">> \o e \o KeyValueStatement(<<"k">>, <<"v">>)
RecNoComment(e) == KeyValueStatement(<<"n">>, <<"w">>)
RecCloseBeforeOpen(e) == <<"*","/","c","/","*">> \o e \o KeyValueStatement(<<"k">>, <<"v">>)
RecOnlyOpenComment(e) == <<"/","*","c">> \o e \o KeyValueStatement(<<"k">>, <<"v">>)
RecOnlyCloseComment(e) == <<"c","*","/">> \o e \o KeyValueStatement(<<"k">>, <<"v">>)
RecNoKeyQuote(e) == <<"/","*","c","*","/">> \o e \o <<"k">>
RecKeyUnclosed(e) == <<"/","*","c","*","/">> \o e \o <<"\"","k">>
RecNoValueQuote(e) == <<"/","*","c","*","/">> \o e \o <<"\"","k","\""," ","="," ">>
RecValueUnclosed(e) == <<"/","*","c","*","/">> \o e \o <<"\"","k","\""," ","="," ","\"","v">>
RecEmpty(e) == <<>>

RecordPool(e) ==
    { RecCommonGreeting(e), RecShort(e), RecNoComment(e), RecCloseBeforeOpen(e),
      RecOnlyOpenComment(e), RecOnlyCloseComment(e), RecNoKeyQuote(e), RecKeyUnclosed(e),
      RecNoValueQuote(e), RecValueUnclosed(e), RecEmpty(e) }

RECURSIVE WriteRecords(_, _)
WriteRecords(rs, e) ==
    IF rs = <<>> THEN <<>> ELSE Head(rs) \o <<";">> \o e \o WriteRecords(Tail(rs), e)

\* with blank: an empty line ahead of every record but the first
WithBlankLines(rs, e, blank) ==
    [i \in 1..Len(rs) |-> IF blank /\ i > 1 THEN e \o rs[i] ELSE rs[i]]

InitParser ==
    /\ CodecIdle
    /\ PipeIdle
    /\ WriterIdle
    /\ ReportIdle
    /\ pcParse = "start"
    /\ srcEol \in {UnixEol, DosEol}
    /\ \E rs \in SeqsUpTo(RecordPool(srcEol), MaxRecords), blank \in BOOLEAN :
           srcRecords = WithBlankLines(rs, srcEol, blank)
    /\ fileText = WriteRecords(srcRecords, srcEol)
    /\ records = NoValue
    /\ ixRecord = 0
    /\ translationKeys = NoValue
    /\ guiTexts = NoValue
    /\ comments = NoValue

NextParser == ParseStart \/ ParseRecord \/ ParseReturn

SpecParser == InitParser /\ [][NextParser]_vars

\* ------------------------------------------------------------------------
\* Inputs of the parser for the line breaks: well-formed records, the line
\* break inside a record and the one behind the terminator chosen apart,
\* with or without an empty first line
\* ------------------------------------------------------------------------
EolRecordPool(inner) == { RecCommonGreeting(inner), RecShort(inner) }

\* with lead: an empty line ahead of the first record
WithLeadingLine(rs, e, lead) ==
    [i \in 1..Len(rs) |-> IF lead /\ i = 1 THEN e \o rs[i] ELSE rs[i]]

InitEol ==
    /\ CodecIdle
    /\ PipeIdle
    /\ WriterIdle
    /\ ReportIdle
    /\ pcParse = "start"
    /\ srcEol \in {UnixEol, DosEol}
    /\ \E inner \in {UnixEol, DosEol}, lead \in BOOLEAN :
          \E rs \in SeqsUpTo(EolRecordPool(inner), MaxRecords) :
              srcRecords = WithLeadingLine(rs, srcEol, lead)
    /\ fileText = WriteRecords(srcRecords, srcEol)
    /\ records = NoValue
    /\ ixRecord = 0
    /\ translationKeys = NoValue
    /\ guiTexts = NoValue
    /\ comments = NoValue

SpecEol == InitEol /\ [][NextParser]_vars

\* ------------------------------------------------------------------------
\* actionTranslateAppStringsFileViaGcloud: request files
\* ------------------------------------------------------------------------
\* no file at a path / no text in a file: no text is this sequence
NoText == <<"NoFile">>
NoFile == [kind |-> "nofile"]

\* formattedList: one 'q' entry per key, in the order of translationKeys
tokenizedKeys(keys) ==
    [i \in 1..Len(keys) |-> parseKeyFromToGloud(keys[i]).newText]

\* jsonTemplate.format(...): the request of one target language
requestFor(keys, targetLang) ==
    [q |-> tokenizedKeys(keys), source |-> "en", target |-> targetLang, format |-> "text"]

AllLangs == <<"zh", "it", "de", "fr">>
AllDirNames == <<"zh-Hans.lproj", "it.lproj", "de.lproj", "fr.lproj">>

LangCodes == { AllLangs[i] : i \in 1..Len(AllLangs) }
DirNames == { AllDirNames[i] : i \in 1..Len(AllDirNames) }

BuildRequests ==
    /\ pc = "parse"
    /\ pcParse = "returned"
    /\ requestFiles' = [i \in 1..Len(targetLangs) |-> requestFor(translationKeys, targetLangs[i])]
    /\ ixLang' = 1
    /\ pc' = "call"
    /\ UNCHANGED <<targetLangs, lProjDirNames, envToken, g_authToken, gcloudFiles,
                   formattersList, iosFiles>>
    /\ UNCHANGED <<popenCalls, acquiredToken>>
    /\ UNCHANGED <<codecVars, parserVars, writerVars, reportVars>>

\* the exception of parseLocalizableItem is caught nowhere
ParseFailed ==
    /\ pc = "parse"
    /\ pcParse = "raised"
    /\ pc' = "crashed"
    /\ UNCHANGED <<targetLangs, lProjDirNames, envToken, g_authToken, requestFiles,
                   ixLang, gcloudFiles, formattersList, iosFiles>>
    /\ UNCHANGED <<popenCalls, acquiredToken>>
    /\ UNCHANGED <<codecVars, parserVars, writerVars, reportVars>>

\* ------------------------------------------------------------------------
\* callGcloudTranslate
\* ------------------------------------------------------------------------
\* the token without its backslash, as a service may hand it back
RECURSIVE WithoutBackslash(_)
WithoutBackslash(t) ==
    IF t = <<>> THEN <<>>
    ELSE IF Head(t) = "\\" THEN WithoutBackslash(Tail(t))
         ELSE <<Head(t)>> \o WithoutBackslash(Tail(t))

\* ------------------------------------------------------------------------
\* Tokenize and restore for keys with many placeholders
\* ------------------------------------------------------------------------
MaxPlaceholders == 11

\* a key with n placeholders, %d and %s in turn, sep around each of them
RECURSIVE LongText(_, _, _)
LongText(n, first, sep) ==
    IF n = 0 THEN sep
    ELSE LongText(n - 1, first, sep)
         \o <<"%", IF (n % 2 = 1) = first THEN "d" ELSE "s">> \o sep

LongTexts ==
    { LongText(n, first, sep) :
        n \in 0..MaxPlaceholders, first \in BOOLEAN, sep \in {<<>>, <<"a">>} }

InitLong ==
    /\ pcCodec = "init"
    /\ text \in LongTexts
    /\ newText = NoValue
    /\ formatters = NoValue
    /\ translatedText = NoValue
    /\ restored = NoValue
    /\ ParserIdle
    /\ PipeIdle
    /\ WriterIdle
    /\ ReportIdle

\* the translation service hands the text back with every token in the
\* form {i}, its backslash removed
TranslateClean ==
    /\ pcCodec = "tokenized"
    /\ translatedText' = WithoutBackslash(newText)
    /\ pcCodec' = "translated"
    /\ UNCHANGED <<text, newText, formatters, restored>>
    /\ UNCHANGED <<parserVars, pipeVars, writerVars, reportVars>>

NextLong == Tokenize \/ TranslateEcho \/ TranslateClean \/ Restore

SpecLong == InitLong /\ [][NextLong]_vars

\* translatedText values a service may return for request item qi
ItemAnswers(qi) == { <<"t">> \o WithoutBackslash(qi), <<"x">> }

\* translations lists: shorter than or as long as the request with either
\* answer per item, or the first answers with further items behind them
TranslationLists(q) ==
    UNION { { tr \in [1..n -> UNION { ItemAnswers(q[i]) : i \in 1..Len(q) }] :
                \A i \in 1..n : tr[i] \in ItemAnswers(q[i]) }
            : n \in 0..Len(q) }
    \cup { [i \in 1..(Len(q) + e) |->
                IF i <= Len(q) THEN <<"t">> \o WithoutBackslash(q[i]) ELSE <<"x">>]
            : e \in 1..MaxResponseExtra }

\* standard output of curl that carries no "status": field
ResponseBodies(q) ==
    { [kind |-> "translations", translations |-> tr] : tr \in TranslationLists(q) }
    \cup { [kind |-> "translations", translations |-> <<None>>],   \* no translatedText field
           [kind |-> "nolist", translations |-> <<>>],             \* "translations": {} or ""
           [kind |-> "nodata", translations |-> <<>>],             \* JSON without "data"
           [kind |-> "notjson", translations |-> <<>>] }           \* not JSON

\* (msgLines, errLines) of proc.communicate()
CurlResults(q) ==
    { [errLines |-> e, msgLines |-> "empty", body |-> NoFile] : e \in {"unauthenticated", "other"} }
    \cup { [errLines |-> "empty", msgLines |-> m, body |-> NoFile] :
               m \in {"empty", "status unauthenticated", "status other"} }
    \cup { [errLines |-> "empty", msgLines |-> "body", body |-> b] : b \in ResponseBodies(q) }

TokenValue == "token"

\* a variant that never takes the branch of the missing token
tokenMissingIgnored(token, env) == FALSE

\* g_authToken == None and GCLOUD_TOKEN is not a key of os.environ
tokenMissing(token, env) == token = "None" /\ ~env

\* a variant that forgets the token once it has been used
authTokenDropped(token) == IF token = "None" THEN TokenValue ELSE "None"

\* g_authToken after the test of g_authToken == None, GCLOUD_TOKEN being set:
\* the value of the environment variable if it was None, else as it was
authTokenChecked(token) == IF token = "None" THEN TokenValue ELSE token

\* a variant that opens the output file before it looks at the output
outputFileOpenedFirst(file, r) ==
    IF r.msgLines = "body" THEN r.body ELSE [kind |-> "notjson", translations |-> <<>>]

\* the output file after a call that did not end the process: written only
\* inside "if len( msgLines ) > 0"
outputFileAfter(file, r) == IF r.msgLines = "body" THEN r.body ELSE file

\* (msgLines, errLines) of "gcloud auth print-access-token"
AuthResults ==
    { [errLines |-> "other", msgLines |-> "empty"],
      [errLines |-> "empty", msgLines |-> "empty"],
      [errLines |-> "empty", msgLines |-> "token"] }

FreshToken == "fresh"

\* the entry of popenCalls for one run of a command
popenCall(cmd, target, r) ==
    [cmd |-> cmd, target |-> target, errLines |-> r.errLines, msgLines |-> r.msgLines]

\* acquireAndStoreGToken: the token is printed with the export hint, and kept nowhere
acquireAndStoreGToken(a, calls) ==
    [popenCalls |-> Append(calls, popenCall("gcloud", "", a)),
     token |-> IF a.errLines = "empty" /\ a.msgLines = "token" THEN FreshToken ELSE "None"]

CallGcloudTranslate ==
    /\ pc = "call"
    /\ ixLang <= Len(requestFiles)
    /\ IF tokenMissing(g_authToken, envToken)
       THEN \* acquireAndStoreGToken(), then _errorExit
            /\ \E a \in AuthResults :
                  LET acq == acquireAndStoreGToken(a, popenCalls)
                  IN /\ popenCalls' = acq.popenCalls
                     /\ acquiredToken' = acq.token
            /\ pc' = "exit"
            /\ UNCHANGED <<g_authToken, ixLang, gcloudFiles>>
       ELSE /\ g_authToken' = authTokenChecked(g_authToken)
            /\ \E r \in CurlResults(requestFiles[ixLang].q) :
                  LET calls == Append(popenCalls, popenCall("curl", requestFiles[ixLang].target, r))
                  IN IF r.errLines # "empty" \/ r.msgLines = "status other"
                     THEN \* _errorExit, with or without UNAUTHENTICATED in errLines
                          /\ pc' = "exit"
                          /\ popenCalls' = calls
                          /\ UNCHANGED <<ixLang, gcloudFiles, acquiredToken>>
                     ELSE IF r.msgLines = "status unauthenticated"
                     THEN \* acquireAndStoreGToken(), then _errorExit
                          /\ \E a \in AuthResults :
                                LET acq == acquireAndStoreGToken(a, calls)
                                IN /\ popenCalls' = acq.popenCalls
                                   /\ acquiredToken' = acq.token
                          /\ pc' = "exit"
                          /\ UNCHANGED <<ixLang, gcloudFiles>>
                     ELSE /\ pc' = "call"
                          /\ ixLang' = ixLang + 1
                          /\ popenCalls' = calls
                          /\ UNCHANGED acquiredToken
                          /\ gcloudFiles' = [gcloudFiles EXCEPT
                                                ![targetLangs[ixLang]] = outputFileAfter(@, r)]
    /\ UNCHANGED <<targetLangs, lProjDirNames, envToken, requestFiles, formattersList, iosFiles>>
    /\ UNCHANGED <<codecVars, parserVars, writerVars, reportVars>>

\* ------------------------------------------------------------------------
\* translateForLanguages: formattersList and the conversion loop
\* ------------------------------------------------------------------------
ComputeFormattersList ==
    /\ pc = "call"
    /\ ixLang > Len(requestFiles)
    /\ formattersList' = [i \in 1..Len(translationKeys) |->
                              parseKeyFromToGloud(translationKeys[i]).formatters]
    /\ ixLang' = 1
    /\ pc' = "convert"
    /\ UNCHANGED <<targetLangs, lProjDirNames, envToken, g_authToken, requestFiles,
                   gcloudFiles, iosFiles>>
    /\ UNCHANGED <<popenCalls, acquiredToken>>
    /\ UNCHANGED <<codecVars, parserVars, writerVars, reportVars>>

\* sep.join(lines)
RECURSIVE PyJoin(_, _)
PyJoin(sep, lines) ==
    IF lines = <<>> THEN <<>>
    ELSE IF Len(lines) = 1 THEN lines[1]
         ELSE lines[1] \o sep \o PyJoin(sep, Tail(lines))

\* the three lines written per record
iosLines(rec) ==
    << <<"/", "*", " ">> \o rec.comment \o <<" ", "*", "/">>,
       <<"\"">> \o rec.key \o <<"\"", " ", "=", " ", "\"">> \o rec.text \o <<"\"", ";">>,
       <<LF>> >>

\* "\n".join( lines )
iosFileText(iosRecords) ==
    PyJoin(<<LF>>, Flatten([i \in 1..Len(iosRecords) |-> iosLines(iosRecords[i])]))

\* a variant that takes key and comment of the record after the current one
RECURSIVE convertLoopShifted(_, _, _, _, _, _)
convertLoopShifted(translations, keys, cmts, fmtsList, ixText, iosRecords) ==
    IF ixText > Len(translations) THEN [outcome |-> "ok", iosRecords |-> iosRecords]
    ELSE IF ixText > Len(keys) \/ ixText > Len(cmts) \/ ixText > Len(fmtsList)
              \/ translations[ixText] = None
         THEN [outcome |-> "crashed", iosRecords |-> iosRecords]
         ELSE LET r == convertItem(translations[ixText], fmtsList[ixText])
                  other == IF ixText < Len(keys) THEN ixText + 1 ELSE 1
              IN IF r.exit THEN [outcome |-> "exit", iosRecords |-> iosRecords]
                 ELSE convertLoopShifted(translations, keys, cmts, fmtsList, ixText + 1,
                          Append(iosRecords, [key |-> keys[other], comment |-> cmts[other],
                                              text |-> r.text]))

\* for ixText, d in enumerate( translations ): crashed = IndexError or KeyError
RECURSIVE convertLoop(_, _, _, _, _, _)
convertLoop(translations, keys, cmts, fmtsList, ixText, iosRecords) ==
    IF ixText > Len(translations) THEN [outcome |-> "ok", iosRecords |-> iosRecords]
    ELSE IF ixText > Len(keys) \/ ixText > Len(cmts) \/ ixText > Len(fmtsList)
              \/ translations[ixText] = None
         THEN [outcome |-> "crashed", iosRecords |-> iosRecords]
         ELSE LET r == convertItem(translations[ixText], fmtsList[ixText])
              IN IF r.exit THEN [outcome |-> "exit", iosRecords |-> iosRecords]
                 ELSE convertLoop(translations, keys, cmts, fmtsList, ixText + 1,
                          Append(iosRecords, [key |-> keys[ixText], comment |-> cmts[ixText],
                                              text |-> r.text]))

\* a variant that writes the records converted so far when an item fails
convertWritingPartial(keys, cmts, fmtsList, resultFile) ==
    IF resultFile = NoFile \/ resultFile.kind \in {"notjson", "nodata"}
    THEN [outcome |-> "crashed", text |-> NoText]
    ELSE LET r == convertLoop(resultFile.translations, keys, cmts, fmtsList, 1, <<>>)
         IN [outcome |-> "ok", text |-> iosFileText(r.iosRecords)]

\* convertTranslationOutputToIosFormat: outcome and the text it writes
convertTranslationOutputToIosFormat(keys, cmts, fmtsList, resultFile) ==
    IF resultFile = NoFile \/ resultFile.kind \in {"notjson", "nodata"}
    THEN [outcome |-> "crashed", text |-> NoText]       \* IOError, ValueError, KeyError
    ELSE LET r == convertLoop(resultFile.translations, keys, cmts, fmtsList, 1, <<>>)
         IN IF r.outcome = "ok"
            THEN [outcome |-> "ok", text |-> iosFileText(r.iosRecords)]
            ELSE [outcome |-> r.outcome, text |-> NoText]

\* one pass of "for ix, outputFile in enumerate( gcloudOutputPaths )"
ConvertLanguage ==
    /\ pc = "convert"
    /\ ixLang <= Len(targetLangs)
    /\ IF ixLang > Len(formattersList)
       THEN \* formatters= formattersList[ix] : IndexError
            /\ pc' = "crashed"
            /\ UNCHANGED <<ixLang, iosFiles>>
       ELSE LET r == convertTranslationOutputToIosFormat(translationKeys, comments,
                         formattersList, gcloudFiles[targetLangs[ixLang]])
            IN IF r.outcome = "ok"
               THEN /\ iosFiles' = [iosFiles EXCEPT ![lProjDirNames[ixLang]] = r.text]
                    /\ ixLang' = ixLang + 1
                    /\ pc' = "convert"
               ELSE /\ pc' = r.outcome
                    /\ UNCHANGED <<ixLang, iosFiles>>
    /\ UNCHANGED <<targetLangs, lProjDirNames, envToken, g_authToken, requestFiles,
                   gcloudFiles, formattersList>>
    /\ UNCHANGED <<popenCalls, acquiredToken>>
    /\ UNCHANGED <<codecVars, parserVars, writerVars, reportVars>>

\* translateForLanguages and the action return
ActionReturn ==
    /\ pc = "convert"
    /\ ixLang > Len(targetLangs)
    /\ pc' = "done"
    /\ UNCHANGED <<targetLangs, lProjDirNames, envToken, g_authToken, requestFiles,
                   ixLang, gcloudFiles, formattersList, iosFiles>>
    /\ UNCHANGED <<popenCalls, acquiredToken>>
    /\ UNCHANGED <<codecVars, parserVars, writerVars, reportVars>>

\* ------------------------------------------------------------------------
\* reportDiff and composeDiff
\* ------------------------------------------------------------------------
\* a directory: the folder it lies in, its base name as text, and what
\* its strings files hold
folderPath(parent, base, content) == [parent |-> parent, base |-> base, content |-> content]

\* os.path.basename( path )
basename(path) == path.base

\* pathTail[0:2]
langOfPath(path) ==
    LET pathTail == basename(path)
    IN PySlice(pathTail, 0, IF Len(pathTail) < 2 THEN Len(pathTail) ELSE 2)

\* hash[lang]= path
hashPut(hash, lang, path) ==
    [k \in DOMAIN hash \cup {lang} |-> IF k = lang THEN path ELSE hash[k]]

\* for path in folders: ... hash[lang]= path
RECURSIVE foldersHash(_, _)
foldersHash(folders, hash) ==
    IF folders = <<>> THEN hash
    ELSE foldersHash(Tail(folders), hashPut(hash, langOfPath(Head(folders)), Head(folders)))

\* the text "diff -u -r" prints for two directories that differ
diffText(oldPath, newPath) ==
    <<"-", "-", "-", " ">> \o basename(oldPath) \o <<LF>>
        \o <<"+", "+", "+", " ">> \o basename(newPath) \o <<LF>>

\* what diff prints on its standard output for the two directories
diffStdout(oldPath, newPath) ==
    IF oldPath.content = newPath.content THEN <<>> ELSE diffText(oldPath, newPath)

\* (stdoutContent, errLines) of diff
DiffResults(oldPath, newPath) ==
    { [errLines |-> "other", stdoutContent |-> <<>>],
      [errLines |-> "empty", stdoutContent |-> diffStdout(oldPath, newPath)] }

\* a variant that returns no line for an empty output of diff
composeDiffNoBlank(r) ==
    IF r.errLines # "empty" THEN [exit |-> TRUE, msgLines |-> <<>>]
    ELSE [exit |-> FALSE,
          msgLines |-> IF r.stdoutContent = <<>> THEN <<>> ELSE PySplit(r.stdoutContent, <<LF>>)]

\* composeDiff: _errorExit, or stdoutContent.split( '\n' )
composeDiff(r) ==
    IF r.errLines # "empty" THEN [exit |-> TRUE, msgLines |-> <<>>]
    ELSE [exit |-> FALSE, msgLines |-> PySplit(r.stdoutContent, <<LF>>)]

\* a line of the output of _infoTs or _errorExit about the report
reportMessage(kind, lang, paths) == [kind |-> kind, lang |-> lang, paths |-> paths]

\* the two dictionaries and the empty list of lines
ReportStart ==
    /\ pcReport = "start"
    /\ newFoldersHash' = foldersHash(newFolders, <<>>)
    /\ oldFoldersHash' = foldersHash(oldFolders, <<>>)
    /\ pendingLangs' = DOMAIN foldersHash(oldFolders, <<>>)
    /\ diffLinesAll' = <<>>
    /\ pcReport' = "loop"
    /\ UNCHANGED <<oldFolders, newFolders, messages, reportFile>>
    /\ UNCHANGED <<codecVars, parserVars, pipeVars, writerVars>>

\* one pass of "for lang, oldPath in oldFoldersHash.iteritems()"
ReportLanguage ==
    /\ pcReport = "loop"
    /\ \E lang \in pendingLangs :
          /\ pendingLangs' = pendingLangs \ {lang}
          /\ IF lang \notin DOMAIN newFoldersHash
             THEN /\ messages' = messages \cup {reportMessage("no folder for language", lang, <<>>)}
                  /\ pcReport' = "loop"
                  /\ UNCHANGED diffLinesAll
             ELSE \E r \in DiffResults(oldFoldersHash[lang], newFoldersHash[lang]) :
                     LET diffLines == composeDiff(r)
                         paths == <<oldFoldersHash[lang], newFoldersHash[lang]>>
                         dbx == reportMessage("composeDiff", lang, paths)
                     IN IF diffLines.exit
                        THEN /\ pcReport' = "exit"
                             /\ messages' = messages \cup {dbx, reportMessage("error: diff", lang, paths)}
                             /\ UNCHANGED diffLinesAll
                        ELSE /\ diffLinesAll' = diffLinesAll \o diffLines.msgLines
                             /\ pcReport' = "loop"
                             /\ messages' = messages \cup {dbx}
    /\ UNCHANGED <<oldFolders, newFolders, oldFoldersHash, newFoldersHash, reportFile>>
    /\ UNCHANGED <<codecVars, parserVars, pipeVars, writerVars>>

\* the end of reportDiff: the two _errorExit, or the report file
ReportFinish ==
    /\ pcReport = "loop"
    /\ pendingLangs = {}
    /\ IF Len(diffLinesAll) = 0
       THEN /\ pcReport' = "exit"
            /\ messages' = messages \cup {reportMessage("error: no folders", <<>>, <<>>)}
            /\ UNCHANGED reportFile
       ELSE IF reportFile # NoText
       THEN /\ pcReport' = "exit"
            /\ messages' = messages \cup {reportMessage("error: file exists", <<>>, <<>>)}
            /\ UNCHANGED reportFile
       ELSE /\ reportFile' = PyJoin(<<LF>>, diffLinesAll)
            /\ pcReport' = "returned"
            /\ UNCHANGED messages
    /\ UNCHANGED <<oldFolders, newFolders, oldFoldersHash, newFoldersHash,
                   pendingLangs, diffLinesAll>>
    /\ UNCHANGED <<codecVars, parserVars, pipeVars, writerVars>>

\* ------------------------------------------------------------------------
\* Inputs of reportDiff: locale directories of a project and of a result
\* ------------------------------------------------------------------------
MaxFolders == 2

DeLproj == <<"d", "e", ".", "l", "p", "r", "o", "j">>
ItLproj == <<"i", "t", ".", "l", "p", "r", "o", "j">>
ZhHansLproj == <<"z", "h", "-", "H", "a", "n", "s", ".", "l", "p", "r", "o", "j">>
DeDE == <<"d", "e", ".", "D", "E">>
ItIT == <<"i", "t", ".", "I", "T">>
FrFR == <<"f", "r", ".", "F", "R">>

OldFolderPool == { folderPath("project", b, "old") : b \in {DeLproj, ItLproj, ZhHansLproj} }
NewFolderPool ==
    { folderPath("result", b, c) : b \in {DeDE, ItIT, FrFR}, c \in {"old", "new"} }

\* lists of folders of different names
FolderLists(pool) ==
    { fs \in SeqsUpTo(pool, MaxFolders) :
          \A i, j \in 1..Len(fs) : i # j => fs[i].base # fs[j].base }

InitReport ==
    /\ CodecIdle
    /\ ParserIdle
    /\ PipeIdle
    /\ WriterIdle
    /\ pcReport = "start"
    /\ oldFolders \in FolderLists(OldFolderPool)
    /\ newFolders \in FolderLists(NewFolderPool)
    /\ oldFoldersHash = NoValue
    /\ newFoldersHash = NoValue
    /\ pendingLangs = {}
    /\ diffLinesAll = NoValue
    /\ messages = {}
    /\ reportFile \in {NoText, <<"o", "l", "d">>}

NextReport == ReportStart \/ ReportLanguage \/ ReportFinish

SpecReport == InitReport /\ [][NextReport]_vars

\* ------------------------------------------------------------------------
\* actionLocalizeAppViaGcloud after the translation, and the end of main
\* ------------------------------------------------------------------------
\* newFolders, do16To8ConversionForFolder for every project folder (which
\* may end in _errorExit), shutil.move
PostProcess ==
    /\ pc = "done"
    /\ \E converted \in BOOLEAN : pc' = IF converted THEN "report" ELSE "exit"
    /\ UNCHANGED <<targetLangs, lProjDirNames, envToken, g_authToken, requestFiles,
                   ixLang, gcloudFiles, formattersList, iosFiles, popenCalls, acquiredToken>>
    /\ UNCHANGED <<codecVars, parserVars, writerVars, reportVars>>

\* reportDiff on the project folders and the result folders of the same
\* names, with a new outputDir: every language is matched, so it ends in
\* the _errorExit of composeDiff or returns; then the action returns and
\* main prints "Program exited normally."
ReportAndReturn ==
    /\ pc = "report"
    /\ \E diffFailed \in BOOLEAN : pc' = IF diffFailed THEN "exit" ELSE "normal"
    /\ UNCHANGED <<targetLangs, lProjDirNames, envToken, g_authToken, requestFiles,
                   ixLang, gcloudFiles, formattersList, iosFiles, popenCalls, acquiredToken>>
    /\ UNCHANGED <<codecVars, parserVars, writerVars, reportVars>>

\* ------------------------------------------------------------------------
\* Inputs of the pipeline: a master strings file with one commented record
\* per key, and the languages of the project
\* ------------------------------------------------------------------------
PipelineKeys == { <<"a">>, <<"%", "d", "%", "s">> }

masterRecord(k, i) ==
    <<"/", "*">> \o <<"c">> \o FormatDecimal(i) \o <<"*", "/">> \o UnixEol \o KeyValueStatement(k, k)

\* the records of a master file: one per key, or one that does not parse
MasterRecordLists ==
    { [i \in 1..Len(keys) |-> masterRecord(keys[i], i)] : keys \in SeqsUpTo(PipelineKeys, MaxKeys) }
    \cup { <<RecValueUnclosed(UnixEol)>> }

Init ==
    /\ CodecIdle
    /\ pcParse = "start"
    /\ srcEol = UnixEol
    /\ srcRecords \in MasterRecordLists
    /\ fileText = WriteRecords(srcRecords, UnixEol)
    /\ records = NoValue
    /\ ixRecord = 0
    /\ translationKeys = NoValue
    /\ guiTexts = NoValue
    /\ comments = NoValue
    /\ pc = "parse"
    /\ \E n \in 1..MaxLangs :
           /\ targetLangs = SubSeq(AllLangs, 1, n)
           /\ lProjDirNames = SubSeq(AllDirNames, 1, n)
    /\ envToken \in BOOLEAN
    /\ g_authToken = "None"
    /\ requestFiles = NoValue
    /\ ixLang = 0
    /\ gcloudFiles = [l \in LangCodes |-> NoFile]
    /\ formattersList = NoValue
    /\ iosFiles = [d \in DirNames |-> NoText]
    /\ popenCalls = <<>>
    /\ acquiredToken = "None"
    /\ WriterIdle
    /\ ReportIdle

Next ==
    \/ ParseStart \/ ParseRecord \/ ParseReturn \/ ParseFailed
    \/ BuildRequests
    \/ CallGcloudTranslate
    \/ ComputeFormattersList
    \/ ConvertLanguage
    \/ ActionReturn
    \/ PostProcess
    \/ ReportAndReturn

Spec == Init /\ [][Next]_vars

\* ------------------------------------------------------------------------
\* The writer of convertTranslationOutputToIosFormat followed by
\* parseAppStringsFile on the text it wrote
\* ------------------------------------------------------------------------
LocalizedRecordPool ==
    { [key |-> k, comment |-> c, text |-> t] :
          k \in { <<"k">>, <<"%", "d">> },
          c \in { <<"c">>, <<>> },
          t \in { <<"t">>, <<"x", " ", "%", "d">> } }

InitWriter ==
    /\ CodecIdle
    /\ ParserIdle
    /\ PipeIdle
    /\ ReportIdle
    /\ localizedRecords \in SeqsUpTo(LocalizedRecordPool, MaxLocalized)

\* lines= [] ... outputF.write( "\n".join( lines ) )
WriteIosFile ==
    /\ pcParse = "idle"
    /\ fileText' = iosFileText(localizedRecords)
    /\ pcParse' = "start"
    /\ UNCHANGED <<srcRecords, srcEol, records, ixRecord, translationKeys, guiTexts, comments>>
    /\ UNCHANGED <<codecVars, pipeVars, writerVars, reportVars>>

NextWriter == WriteIosFile \/ ParseStart \/ ParseRecord \/ ParseReturn

SpecWriter == InitWriter /\ [][NextWriter]_vars

\* ------------------------------------------------------------------------
\* extractAppRelevantPaths and the translation of a project
\* ------------------------------------------------------------------------
LowerLetters ==
    { "a", "b", "c", "d", "e", "f", "g", "h", "i", "j", "k", "l", "m",
      "n", "o", "p", "q", "r", "s", "t", "u", "v", "w", "x", "y", "z" }

\* langSupportDirPattern.match( dir ) for "^[a-z]{2}.*\.lproj$"
langSupportDirPattern(dir) ==
    /\ Len(dir) >= 8
    /\ dir[1] \in LowerLetters
    /\ dir[2] \in LowerLetters
    /\ SubSeq(dir, Len(dir) - 5, Len(dir)) = <<".", "l", "p", "r", "o", "j">>

\* the loop over the directories of os.walk: targetLangs and mapLang2IosPath
RECURSIVE walkDirs(_, _, _)
walkDirs(dirs, langs, mapLang2IosPath) ==
    IF dirs = <<>> THEN [targetLangs |-> langs, mapLang2IosPath |-> mapLang2IosPath]
    ELSE LET dir == Head(dirs)
         IN IF langSupportDirPattern(dir)
            THEN LET lang == PySlice(dir, 0, 2)
                     dirPath == folderPath("project", dir, "old")
                 IN walkDirs(Tail(dirs), Append(langs, lang),
                             hashPut(mapLang2IosPath, lang, dirPath))
            ELSE walkDirs(Tail(dirs), langs, mapLang2IosPath)

\* list( aSet ): the members once each, in an order the set decides
PyListOfSet(S) ==
    { sq \in [1..Cardinality(S) -> S] : \A i, j \in 1..Cardinality(S) : i # j => sq[i] # sq[j] }

\* a variant that lists the folders from the last language to the first
localizableFoldersReversed(langsNoEN, mapLang2IosPath) ==
    [i \in 1..Len(langsNoEN) |-> mapLang2IosPath[langsNoEN[Len(langsNoEN) + 1 - i]]]

\* for lang in targetLangsNoEN: localizableFolders.append( mapLang2IosPath[ lang ] )
localizableFolders(langsNoEN, mapLang2IosPath) ==
    [i \in 1..Len(langsNoEN) |-> mapLang2IosPath[langsNoEN[i]]]

\* the results extractAppRelevantPaths can return for the directories dirs
extractAppRelevantPaths(dirs) ==
    LET w == walkDirs(dirs, <<>>, [k \in {} |-> <<>>])
        uniqueTargetLangs == { w.targetLangs[i] : i \in 1..Len(w.targetLangs) } \ { <<"e", "n">> }
    IN { [localizableFolders |-> localizableFolders(targetLangsNoEN, w.mapLang2IosPath),
          targetLangsNoEN    |-> targetLangsNoEN] :
         targetLangsNoEN \in PyListOfSet(uniqueTargetLangs) }

\* tempLProjDirNames
tempLProjDirNames(folders) == [i \in 1..Len(folders) |-> basename(folders[i])]

MaxProjectDirs == 3

EnLproj == <<"e", "n", ".", "l", "p", "r", "o", "j">>
BaseLproj == <<"B", "a", "s", "e", ".", "l", "p", "r", "o", "j">>
ZhHantLproj == <<"z", "h", "-", "H", "a", "n", "t", ".", "l", "p", "r", "o", "j">>

ProjectDirPool == { EnLproj, BaseLproj, ZhHansLproj, ZhHantLproj, ItLproj }

\* the directories of a project in the order os.walk lists them
ProjectWalks ==
    { w \in SeqsUpTo(ProjectDirPool, MaxProjectDirs) :
        \A i, j \in 1..Len(w) : i # j => w[i] # w[j] }

ProjectLangCodes == { PySlice(d, 0, 2) : d \in ProjectDirPool }

\* a master file with MaxKeys records that parse
ProjectMasterLists ==
    { [i \in 1..MaxKeys |-> masterRecord(keys[i], i)] : keys \in [1..MaxKeys -> PipelineKeys] }

\* actionLocalizeAppViaGcloud up to the call of
\* actionTranslateAppStringsFileViaGcloud, with GCLOUD_TOKEN set
InitProject ==
    /\ CodecIdle
    /\ pcParse = "start"
    /\ srcEol = UnixEol
    /\ srcRecords \in ProjectMasterLists
    /\ fileText = WriteRecords(srcRecords, UnixEol)
    /\ records = NoValue
    /\ ixRecord = 0
    /\ translationKeys = NoValue
    /\ guiTexts = NoValue
    /\ comments = NoValue
    /\ pc = "parse"
    /\ \E w \in ProjectWalks :
          \E r \in extractAppRelevantPaths(w) :
              /\ targetLangs = r.targetLangsNoEN
              /\ lProjDirNames = tempLProjDirNames(r.localizableFolders)
    /\ envToken = TRUE
    /\ g_authToken = "None"
    /\ requestFiles = NoValue
    /\ ixLang = 0
    /\ gcloudFiles = [l \in ProjectLangCodes |-> NoFile]
    /\ formattersList = NoValue
    /\ iosFiles = [d \in ProjectDirPool |-> NoText]
    /\ popenCalls = <<>>
    /\ acquiredToken = "None"
    /\ WriterIdle
    /\ ReportIdle

NextProject ==
    \/ ParseStart \/ ParseRecord \/ ParseReturn
    \/ BuildRequests
    \/ CallGcloudTranslate
    \/ ComputeFormattersList
    \/ ConvertLanguage
    \/ ActionReturn

SpecProject == InitProject /\ [][NextProject]_vars

\* ------------------------------------------------------------------------
\* Properties of the codec (checked under SpecCodec)
\* ------------------------------------------------------------------------
IsPlaceholderAt(t, pos) == pos + 1 <= Len(t) /\ t[pos] = "%" /\ t[pos + 1] \in {"d", "s"}

IsTokenAt(t, pos) ==
    pos + 2 <= Len(t) /\ t[pos] = "{" /\ IsDigit(t[pos + 1]) /\ t[pos + 2] = "}"

\* the only special substrings of t are %d and %s
OnlyRecognizedPlaceholders(t) ==
    /\ \A i \in 1..Len(t) : t[i] = "%" => IsPlaceholderAt(t, i)
    /\ \A i \in 1..Len(t) : t[i] \notin {"{", "}", "\\"}

\* t with the k-th occurrence of %d or %s replaced by "{" k "}"
RECURSIVE WithPositionalTokens(_, _, _)
WithPositionalTokens(t, pos, k) ==
    IF pos > Len(t) THEN <<>>
    ELSE IF IsPlaceholderAt(t, pos)
         THEN <<"{">> \o FormatDecimal(k) \o <<"}">> \o WithPositionalTokens(t, pos + 2, k + 1)
         ELSE <<t[pos]>> \o WithPositionalTokens(t, pos + 1, k)

\* the occurrences of %d and %s in t, in order
RECURSIVE PlaceholderLiterals(_, _)
PlaceholderLiterals(t, pos) ==
    IF pos > Len(t) THEN <<>>
    ELSE IF IsPlaceholderAt(t, pos)
         THEN <<SubSeq(t, pos, pos + 1)>> \o PlaceholderLiterals(t, pos + 2)
         ELSE PlaceholderLiterals(t, pos + 1)

\* number of positional tokens in t, counted left to right without overlap
RECURSIVE CountTokens(_, _)
CountTokens(t, pos) ==
    IF pos > Len(t) THEN 0
    ELSE IF IsTokenAt(t, pos) THEN 1 + CountTokens(t, pos + 3)
         ELSE CountTokens(t, pos + 1)

\* t with its k-th token occurrence replaced by fmts[k]
RECURSIVE SubstituteTokens(_, _, _, _)
SubstituteTokens(t, fmts, pos, k) ==
    IF pos > Len(t) THEN <<>>
    ELSE IF IsTokenAt(t, pos)
         THEN fmts[k] \o SubstituteTokens(t, fmts, pos + 3, k + 1)
         ELSE <<t[pos]>> \o SubstituteTokens(t, fmts, pos + 1, k)

TimeIsUpTokenized ==
    <<"T","i","m","e"," ","i","s"," ","u","p"," ","i","n"," ","{","0","}"," ",
      "h","o","u","r","s"," ","a","n","d"," ","{","1","}"," ",
      "m","i","n","u","t","e","s">>

DieZeitRestored ==
    <<"D","i","e"," ","Z","e","i","t"," ","i","s","t"," ","i","n"," ",
      "%","d"," ","S","t","u","n","d","e","n"," ","u","n","d"," ",
      "%","d"," ","M","i","n","u","t","e","n"," ",
      "a","b","g","e","l","a","u","f","e","n">>

\* C1: round trip - for a text whose only special substrings are %d and %s,
\* restoring the unchanged tokenized text with the placeholder list of the
\* same tokenize call succeeds and yields the original text.
C1_RoundTrip ==
    (pcCodec = "restored" /\ translatedText = newText /\ OnlyRecognizedPlaceholders(text))
        => (restored.exit = FALSE /\ restored.text = text)

\* C2: tokenize replaces the k-th occurrence of %d or %s by the token
\* "{" k "}" and nothing else, leaves every other character unchanged and
\* returns the replaced literals in order; the "Time is up" key gives
\* "Time is up in {0} hours and {1} minutes" and ["%d", "%d"].
C2_TokenizeShape ==
    pcCodec = "tokenized" =>
        /\ newText = WithPositionalTokens(text, 1, 0)
        /\ formatters = PlaceholderLiterals(text, 1)
        /\ (text = TimeIsUpKey =>
               newText = TimeIsUpTokenized /\ formatters = << <<"%","d">>, <<"%","d">> >>)

\* C3: whenever the number of fragments (tokens + 1) differs from
\* len(placeholders) + 1, restore ends in the fatal error and produces no text.
C3_CountMismatchFatal ==
    (pcCodec = "restored" /\ CountTokens(translatedText, 1) + 1 # Len(formatters) + 1)
        => (restored.exit = TRUE /\ restored.text = NoValue)

C3_Witness ==
    /\ pcCodec = "restored"
    /\ Len(formatters) = 2
    /\ CountTokens(translatedText, 1) = 1
    /\ restored.exit = TRUE

\* C4: when the token count matches, the k-th token occurrence (whatever
\* index it carries) is replaced by the k-th recorded placeholder and every
\* fragment is kept verbatim; the "Die Zeit" text with ["%d", "%d"] gives
\* "Die Zeit ist in %d Stunden und %d Minuten abgelaufen".
C4_InterleaveInOrder ==
    (pcCodec = "restored" /\ CountTokens(translatedText, 1) = Len(formatters))
        => /\ restored.exit = FALSE
           /\ restored.text = SubstituteTokens(translatedText, formatters, 1, 1)
           /\ ((translatedText = DieZeitText /\ formatters = << <<"%","d">>, <<"%","d">> >>)
                   => restored.text = DieZeitRestored)

C4_Witness ==
    /\ pcCodec = "restored"
    /\ text = TimeIsUpKey
    /\ translatedText = DieZeitText
    /\ restored.exit = FALSE
    /\ restored.text = DieZeitRestored

\* ------------------------------------------------------------------------
\* Properties of the record parser (checked under SpecParser)
\* ------------------------------------------------------------------------
CommonGreetingFile ==
    <<"/","*"," ","C","o","m","m","o","n"," ","g","r","e","e","t","i","n","g"," ","*","/","\n",
      "\"","H","o","w"," ","a","r","e"," ","y","o","u","\""," ","="," ",
      "\"","H","o","w"," ","a","r","e"," ","y","o","u","\"",";","\n">>

CommonGreeting == <<"C","o","m","m","o","n"," ","g","r","e","e","t","i","n","g">>

\* offsets (1-based) of the quote characters of r from position from on
QuotePositions(r, from) == { i \in from..Len(r) : r[i] = "\"" }

\* the n-th smallest element of a set of numbers
RECURSIVE NthSmallest(_, _)
NthSmallest(S, n) ==
    LET m == CHOOSE x \in S : \A y \in S : x <= y
    IN IF n = 1 THEN m ELSE NthSmallest(S \ {m}, n - 1)

\* the text between the n-th and the (n+1)-th quote of r from position from on
QuotedSpan(r, from, n) ==
    LET qs == QuotePositions(r, from)
    IN SubSeq(r, NthSmallest(qs, n) + 1, NthSmallest(qs, n + 1) - 1)

HasSub(r, sub) == \E o \in 0..Len(r) : MatchAt(r, sub, o)

FirstOffset(r, sub) == CHOOSE o \in 0..Len(r) : MatchAt(r, sub, o) /\ \A h \in 0..(o - 1) : ~MatchAt(r, sub, h)

NoCommentDelimiters(r) == ~HasSub(r, OpenComment) /\ ~HasSub(r, CloseComment)

\* the markers of r in the expected order: comment delimiters absent, or the
\* open-comment token before the close-comment token; then an opening and a
\* closing quote of the key and of the value after the comment
MarkersInOrder(r) ==
    IF NoCommentDelimiters(r)
    THEN Cardinality(QuotePositions(r, 1)) >= 4
    ELSE /\ HasSub(r, OpenComment)
         /\ HasSub(r, CloseComment)
         /\ FirstOffset(r, OpenComment) + 2 <= FirstOffset(r, CloseComment)
         /\ Cardinality(QuotePositions(r, FirstOffset(r, CloseComment) + 3)) >= 4

\* an empty record: nothing but line breaks and blanks
IsEmptyRecord(r) == \A i \in 1..Len(r) : r[i] \in {LF, CR, " "}

NonEmptyRecords(rs) == SelectSeq(rs, LAMBDA r : ~IsEmptyRecord(r))

\* C5: the "Common greeting" file parses to exactly one record with key and
\* value "How are you" and comment "Common greeting".
C5_CommonGreetingScenario ==
    (pcParse \in {"returned", "raised"} /\ fileText = CommonGreetingFile)
        => /\ pcParse = "returned"
           /\ translationKeys = <<HowAreYou>>
           /\ guiTexts = <<HowAreYou>>
           /\ comments = <<CommonGreeting>>

\* C6: a record without comment delimiters that holds a quoted key and a
\* quoted value is returned with that key and value and no comment.
C6_RecordWithoutCommentKept ==
    pcParse = "returned" =>
        \A i \in 1..Len(srcRecords) :
            LET r == srcRecords[i]
            IN (NoCommentDelimiters(r) /\ Cardinality(QuotePositions(r, 1)) >= 4)
                   => \E j \in 1..Len(translationKeys) :
                          /\ translationKeys[j] = QuotedSpan(r, 1, 1)
                          /\ guiTexts[j] = QuotedSpan(r, 1, 3)
                          /\ comments[j] = None

\* C7: a file holding a non-empty record whose markers are not in the
\* expected order ends in a parse error; the parser never returns from it.
C7_MalformedRecordRaises ==
    (\E i \in 1..Len(srcRecords) :
         ~IsEmptyRecord(srcRecords[i]) /\ ~MarkersInOrder(srcRecords[i]))
        => pcParse # "returned"

\* C8: the returned sequences have equal length and their i-th entries come
\* from the i-th non-empty record of the file, duplicates included.
C8_OrderAndNoDedup ==
    pcParse = "returned" =>
        LET ne == NonEmptyRecords(srcRecords)
        IN /\ Len(translationKeys) = Len(guiTexts)
           /\ Len(guiTexts) = Len(comments)
           /\ Len(translationKeys) = Len(ne)
           /\ \A i \in 1..Len(ne) :
                  LET item == parseLocalizableItem(PyReplaceChar(ne[i], LF, ";"))
                  IN /\ translationKeys[i] = item.key
                     /\ guiTexts[i] = item.value
                     /\ comments[i] = item.comment

\* ------------------------------------------------------------------------
\* Properties of the translation pipeline (checked under Spec)
\* ------------------------------------------------------------------------
RequestsBuilt == pcParse = "returned" /\ pc \notin {"idle", "parse"}

Written(l) == iosFiles[lProjDirNames[l]] # NoText

\* the records a response is meant to give: position i under key i and
\* comment i, the tokens replaced by the placeholders of key i
RecordsByPosition(tr) ==
    [i \in 1..Len(tr) |->
        [key     |-> translationKeys[i],
         comment |-> comments[i],
         text    |-> SubstituteTokens(tr[i], PlaceholderLiterals(translationKeys[i], 1), 1, 1)]]

\* C9: every language's request holds one item per parsed record, item i
\* the tokenized key i; and a written table holds the translated text of
\* position i of that language's response under key i and comment i.
C9_OrderPreserved ==
    RequestsBuilt =>
        \A l \in 1..Len(targetLangs) :
            /\ requestFiles[l].target = targetLangs[l]
            /\ Len(requestFiles[l].q) = Len(translationKeys)
            /\ \A i \in 1..Len(translationKeys) :
                   requestFiles[l].q[i] = parseKeyFromToGloud(translationKeys[i]).newText
            /\ Written(l) =>
                   iosFiles[lProjDirNames[l]]
                       = iosFileText(RecordsByPosition(gcloudFiles[targetLangs[l]].translations))

C9_Witness ==
    /\ pc = "done"
    /\ Len(targetLangs) = 2
    /\ Len(translationKeys) = 2
    /\ translationKeys[1] # translationKeys[2]
    /\ Written(1) /\ Written(2)
    /\ iosFiles[lProjDirNames[1]] # iosFiles[lProjDirNames[2]]

\* C10: a table is written for a language only if its response holds as
\* many translations as its request holds items.
C10_ResponseCountChecked ==
    RequestsBuilt =>
        \A l \in 1..Len(targetLangs) :
            Written(l) =>
                Len(gcloudFiles[targetLangs[l]].translations) = Len(requestFiles[l].q)

\* ------------------------------------------------------------------------
\* Properties of the run over the languages (checked under Spec)
\* ------------------------------------------------------------------------
\* the process has ended
Ended == pc \in {"done", "normal", "exit", "crashed"}

\* curl has been run with the request of language l
Submitted(l) ==
    \E c \in 1..Len(popenCalls) :
        popenCalls[c].cmd = "curl" /\ popenCalls[c].target = targetLangs[l]

\* curl has answered the request of language l with a body and no error
AnsweredWithBody(l) ==
    \E c \in 1..Len(popenCalls) :
        /\ popenCalls[c].cmd = "curl" /\ popenCalls[c].target = targetLangs[l]
        /\ popenCalls[c].errLines = "empty" /\ popenCalls[c].msgLines = "body"

\* the response file f has the documented shape
WellFormed(f) ==
    /\ f # NoFile
    /\ f.kind = "translations"
    /\ \A i \in 1..Len(f.translations) : f.translations[i] # None

\* every item of the response of language l has a key and as many tokens
\* as the key has placeholders
EveryItemRestorable(l) ==
    LET tr == gcloudFiles[targetLangs[l]].translations
    IN \A i \in 1..Len(tr) :
          /\ i <= Len(translationKeys)
          /\ CountTokens(tr[i], 1) = Len(PlaceholderLiterals(translationKeys[i], 1))

\* "data" and "translations" were found in f, and "translatedText" in
\* every item the loop came by
ResponseRead(f) ==
    /\ f # NoFile
    /\ f.kind \in {"translations", "nolist"}
    /\ \A i \in 1..Len(f.translations) : f.translations[i] # None

\* request, response and restore of language l are all without failure
CycleSucceeds(l) ==
    AnsweredWithBody(l) /\ WellFormed(gcloudFiles[targetLangs[l]]) /\ EveryItemRestorable(l)

\* the request of language l was answered, the answer read, every item restored
CycleCompleted(l) ==
    AnsweredWithBody(l) /\ ResponseRead(gcloudFiles[targetLangs[l]]) /\ EveryItemRestorable(l)

\* C11: when a run with a token has ended, whatever failed for one
\* language, the request of every language has been submitted and the
\* table of every language whose cycle succeeds has been written.
C11_PerLanguageIsolation ==
    (RequestsBuilt /\ envToken /\ Ended) =>
        \A l \in 1..Len(targetLangs) :
            /\ Submitted(l)
            /\ CycleSucceeds(l) => Written(l)

\* C12: a written table belongs to a language whose request was answered,
\* whose response was read and whose items were all restored, and it holds
\* all of them; a step writes at most the table of the language being
\* converted, once, and changes no table that exists.
C12_WrittenOnlyAfterCycle ==
    /\ [](RequestsBuilt =>
            \A l \in 1..Len(targetLangs) :
                Written(l) =>
                    /\ CycleCompleted(l)
                    /\ iosFiles[lProjDirNames[l]]
                          = iosFileText(RecordsByPosition(gcloudFiles[targetLangs[l]].translations)))
    /\ [][RequestsBuilt =>
            \A d \in DirNames :
                iosFiles'[d] # iosFiles[d] =>
                    /\ pc = "convert"
                    /\ ixLang <= Len(targetLangs)
                    /\ d = lProjDirNames[ixLang]
                    /\ iosFiles[d] = NoText
                    /\ CycleCompleted(ixLang)]_vars

\* a language fails in the conversion and the table of another one exists
C12_Witness ==
    /\ pc \in {"exit", "crashed"}
    /\ Len(targetLangs) = 2
    /\ Written(1)
    /\ ~Written(2)
    /\ AnsweredWithBody(2)
    /\ ~(ResponseRead(gcloudFiles[targetLangs[2]]) /\ EveryItemRestorable(2))

\* C16: a response file that is not a "data" object with a "translations"
\* list of items with "translatedText" gives no table for its language, and
\* the conversion does not get past that language.
C16_MalformedResponseRejected ==
    RequestsBuilt =>
        \A l \in 1..Len(targetLangs) :
            (gcloudFiles[targetLangs[l]] # NoFile /\ ~WellFormed(gcloudFiles[targetLangs[l]]))
                => /\ ~Written(l)
                   /\ ~(pc \in {"convert", "done"} /\ ixLang > l)

\* ------------------------------------------------------------------------
\* Properties of the token handling (checked under Spec)
\* ------------------------------------------------------------------------
\* the commands run so far that were curl / gcloud
CurlCalls == { c \in 1..Len(popenCalls) : popenCalls[c].cmd = "curl" }
TokenRequests == { c \in 1..Len(popenCalls) : popenCalls[c].cmd = "gcloud" }

\* C13: in a run that starts without a token in g_authToken and without
\* GCLOUD_TOKEN in the environment, the first call asks gcloud for a token
\* and ends the process; curl is run for no language.
C13_NoRequestWithoutToken ==
    (RequestsBuilt /\ ~envToken) =>
        /\ CurlCalls = {}
        /\ pc \in {"call", "exit"}
        /\ pc = "call" => (ixLang = 1 /\ popenCalls = <<>>)
        /\ pc = "exit" => (ixLang = 1 /\ Len(popenCalls) = 1 /\ TokenRequests = {1})

C13_Witness ==
    /\ RequestsBuilt /\ ~envToken
    /\ Len(targetLangs) = 2
    /\ pc = "exit"
    /\ TokenRequests = {1}
    /\ acquiredToken = FreshToken

\* C14: once gcloud has printed a token, g_authToken holds it.
C14_AcquiredTokenStored ==
    acquiredToken # "None" => g_authToken = acquiredToken

\* C15: after any answer of curl that reports UNAUTHENTICATED, on its
\* error stream or in its output, the next command is the token request
\* and the process has ended.
C15_AuthFailuresAlike ==
    \A c \in CurlCalls :
        (popenCalls[c].errLines = "unauthenticated" \/ popenCalls[c].msgLines = "status unauthenticated")
            => /\ pc = "exit"
               /\ c + 1 \in TokenRequests

\* ------------------------------------------------------------------------
\* Properties of writing and parsing again (checked under SpecWriter)
\* ------------------------------------------------------------------------
\* C17: parsing the text written for a list of records returns, in the
\* same order, the key, the text and the comment of each record.
C17_WriteParseRoundTrip ==
    pcParse = "returned" =>
        /\ Len(translationKeys) = Len(localizedRecords)
        /\ \A i \in 1..Len(localizedRecords) :
               /\ i <= Len(translationKeys)
               /\ translationKeys[i] = localizedRecords[i].key
               /\ guiTexts[i] = localizedRecords[i].text
               /\ comments[i] = localizedRecords[i].comment

\* ------------------------------------------------------------------------
\* Properties of reportDiff (checked under SpecReport)
\* ------------------------------------------------------------------------
\* the first two characters of the base name of a directory
LanguageCode(path) == SubSeq(path.base, 1, 2)

OldLanguages == { LanguageCode(oldFolders[i]) : i \in 1..Len(oldFolders) }
NewLanguages == { LanguageCode(newFolders[i]) : i \in 1..Len(newFolders) }

\* the pairs of a previous and a new directory of the same language
MatchedPairs ==
    { <<oldFolders[i], newFolders[j]>> : i \in 1..Len(oldFolders), j \in 1..Len(newFolders) }
        \cap { pr \in OldFolderPool \X NewFolderPool : LanguageCode(pr[1]) = LanguageCode(pr[2]) }

\* the pairs diff was run on
DiffedPairs == { m.paths : m \in { x \in messages : x.kind = "composeDiff" } }

\* a line was printed about language lang having no folder
Warned(lang) == \E m \in messages : m.kind = "no folder for language" /\ m.lang = lang

DiffFailed == \E m \in messages : m.kind = "error: diff"

\* the loop over the languages has come to its end
ReportLoopDone == (pcReport = "loop" /\ pendingLangs = {}) \/ (pcReport \in {"returned", "exit"} /\ ~DiffFailed)

\* C18: when the loop is through, diff has been run on exactly the pairs
\* of the same language code, every language of only one of the two sets
\* has its line of warning, and with a matched pair the report does not
\* end in the error of having nothing to compare.
C18_PairsAndWarnings ==
    ReportLoopDone =>
        /\ DiffedPairs = MatchedPairs
        /\ \A lang \in OldLanguages \ NewLanguages : Warned(lang)
        /\ \A lang \in NewLanguages \ OldLanguages : Warned(lang)
        /\ MatchedPairs # {} => reportMessage("error: no folders", <<>>, <<>>) \notin messages

\* reportDiff has ended, by return or by _errorExit
ReportEnded == pcReport \in {"returned", "exit"}

\* diffOutput.txt was there before reportDiff ran
ReportFilePreExisting == pcReport # "returned" /\ reportFile # NoText

MatchedLanguages == OldLanguages \cap NewLanguages

\* the lists that hold every member of S once
Orderings(S) ==
    { sq \in [1..Cardinality(S) -> S] : \A i, j \in 1..Cardinality(S) : i # j => sq[i] # sq[j] }

\* the lines diff prints for the pair of language lang
DiffLinesOf(lang) ==
    LET pr == CHOOSE x \in MatchedPairs : LanguageCode(x[1]) = lang
    IN PySplit(IF pr[1].content = pr[2].content THEN <<>> ELSE diffText(pr[1], pr[2]), <<LF>>)

\* the lines of the matched pairs, taken in the order ord, joined by line breaks
ReportTextIn(ord) == PyJoin(<<LF>>, Flatten([i \in 1..Len(ord) |-> DiffLinesOf(ord[i])]))

\* C19 as stated: without a report file in the way, reportDiff ends with
\* an error exactly when no language of the previous set is matched.
C19_ErrorOnlyWithoutMatch ==
    (ReportEnded /\ ~ReportFilePreExisting) =>
        (pcReport = "exit" <=> MatchedLanguages = {})

\* C19, amended: without a report file in the way, reportDiff ends with an
\* error exactly when no language of the previous set is matched or diff
\* wrote to its error stream for a matched pair; otherwise the lines of
\* the output of diff for all matched pairs, differing or not, joined by
\* line breaks, are the report file.
C19_ReportOutcome ==
    (ReportEnded /\ ~ReportFilePreExisting) =>
        /\ pcReport = "exit" <=> (MatchedLanguages = {} \/ DiffFailed)
        /\ pcReport = "returned" =>
               \E ord \in Orderings(MatchedLanguages) : reportFile = ReportTextIn(ord)

C19_Witness ==
    /\ pcReport = "returned"
    /\ Cardinality(MatchedLanguages) = 2
    /\ \E pr \in MatchedPairs : pr[1].content = pr[2].content
    /\ \E pr \in MatchedPairs : pr[1].content # pr[2].content

\* ------------------------------------------------------------------------
\* Properties of the end of the run (checked under Spec)
\* ------------------------------------------------------------------------
\* the response of language l holds as many translations as its request items
ResponseComplete(l) ==
    Len(gcloudFiles[targetLangs[l]].translations) = Len(requestFiles[l].q)

\* C20: "Program exited normally." is printed only after a run in which
\* every language was answered with a well-formed response of full length,
\* every item was restored and every table was written.
C20_NoSilentPartialSuccess ==
    pc = "normal" =>
        \A l \in 1..Len(targetLangs) :
            /\ CycleSucceeds(l)
            /\ ResponseComplete(l)
            /\ Written(l)

\* ------------------------------------------------------------------------
\* Further properties of the codec (checked under SpecCodec)
\* ------------------------------------------------------------------------
Tokenized == pcCodec \in {"tokenized", "translated", "restored"}

C22_SeparatorDetection ==
    (pcParse \in {"loop", "returned", "raised"} /\ Len(srcRecords) >= 1) =>
        records = PySplit(fileText, <<";">> \o srcEol)

\* ------------------------------------------------------------------------
\* Further properties of the translation pipeline (checked under Spec)
\* ------------------------------------------------------------------------
\* C23: g_authToken is unset when the process starts, and once it holds a
\* value no step changes it, whatever requests and failures follow.
C23_TokenAssignedOnce ==
    /\ g_authToken = "None"
    /\ [][g_authToken # "None" => g_authToken' = g_authToken]_vars

\* the token is held, a second request has been submitted and has failed
C23_Witness ==
    /\ g_authToken = TokenValue
    /\ Cardinality(CurlCalls) = 2
    /\ pc = "exit"

\* C24: whenever the conversion loop is about to convert a target language,
\* its index is an index of formattersList, for every number of keys and of
\* target languages.
C24_FormattersIndexInRange ==
    (pc = "convert" /\ ixLang <= Len(targetLangs)) => ixLang <= Len(formattersList)

\* ------------------------------------------------------------------------
\* Properties of keys with many placeholders (checked under SpecLong)
\* ------------------------------------------------------------------------
\* C25: a translated text that holds the tokens {0} .. {n-1} of a key with n
\* placeholders, two-digit indices included, is split into n + 1 fragments
\* and restored to the key with all n placeholders, not rejected.
C25_TwoDigitTokensRestored ==
    (pcCodec = "restored" /\ translatedText = WithoutBackslash(newText)) =>
        /\ Len(placeholderPatSplit(translatedText, 1, <<>>)) = Len(formatters) + 1
        /\ ~restored.exit
        /\ restored.text = text

\* ------------------------------------------------------------------------
\* Properties of the translation of a project (checked under SpecProject)
\* ------------------------------------------------------------------------
\* C26: the lists of languages and of locale directories have the same
\* length, the directory at index i is one of language i and never of "en",
\* the request at index i asks for language i, and a string table lies in a
\* directory only if it is the conversion of the answer to the request of
\* the language at the index of that directory.
C26_ListsAligned ==
    /\ Len(lProjDirNames) = Len(targetLangs)
    /\ \A i \in 1..Len(targetLangs) :
          /\ PySlice(lProjDirNames[i], 0, 2) = targetLangs[i]
          /\ targetLangs[i] # <<"e", "n">>
    /\ pc \in {"call", "convert", "done", "exit", "crashed"} =>
          /\ Len(requestFiles) = Len(targetLangs)
          /\ \A i \in 1..Len(targetLangs) : requestFiles[i].target = targetLangs[i]
    /\ \A d \in DOMAIN iosFiles :
          iosFiles[d] # NoText =>
              \E i \in 1..Len(targetLangs) :
                  /\ lProjDirNames[i] = d
                  /\ AnsweredWithBody(i)
                  /\ iosFiles[d] = convertTranslationOutputToIosFormat(translationKeys,
                                       comments, formattersList, gcloudFiles[targetLangs[i]]).text

\* both languages of a project are written, "it" ahead of "zh", the
\* directory of "zh" being the one listed last
C26_Witness ==
    /\ pc = "done"
    /\ targetLangs = << <<"i", "t">>, <<"z", "h">> >>
    /\ lProjDirNames = <<ItLproj, ZhHantLproj>>
    /\ iosFiles[ItLproj] # NoText
    /\ iosFiles[ZhHantLproj] # NoText
    /\ iosFiles[ZhHansLproj] = NoText

\* ------------------------------------------------------------------------
\* Properties of callGcloudTranslate (checked under Spec)
\* ------------------------------------------------------------------------
\* C27: a step that runs curl leaves g_authToken with a value; a step that
\* changes a service output file is a run of curl for the language of that
\* file with nothing on the error stream and an output without status, and
\* it does not end the process; a step that ends the process by an error of
\* the call changes no service output file.
C27_SubmitAndWriteGuarded ==
    [][ /\ (\E c \in (Len(popenCalls) + 1)..Len(popenCalls') : popenCalls'[c].cmd = "curl")
              => g_authToken' # "None"
        /\ \A l \in DOMAIN gcloudFiles :
              gcloudFiles'[l] # gcloudFiles[l] =>
                  /\ Len(popenCalls') = Len(popenCalls) + 1
                  /\ popenCalls'[Len(popenCalls')].cmd = "curl"
                  /\ popenCalls'[Len(popenCalls')].target = l
                  /\ popenCalls'[Len(popenCalls')].errLines = "empty"
                  /\ popenCalls'[Len(popenCalls')].msgLines = "body"
                  /\ pc' # "exit"
        /\ (pc = "call" /\ pc' = "exit") => gcloudFiles' = gcloudFiles
      ]_vars

\* the output of the first language is written, the call for the second
\* one ends the process by a status in the output and leaves no file
C27_Witness ==
    /\ pc = "exit"
    /\ Len(targetLangs) = 2
    /\ Len(popenCalls) = 2
    /\ popenCalls[1].msgLines = "body"
    /\ popenCalls[2].msgLines = "status other"
    /\ gcloudFiles[targetLangs[1]] # NoFile
    /\ gcloudFiles[targetLangs[2]] = NoFile

====
